---------------------------- MODULE Spec2Model ----------------------------
(***************************************************************************)
(* A model of docs/cudf/source/dask-xgb-10min.ipynb: the notebook's code   *)
(* cells, statement by statement, run top to bottom by one kernel.         *)
(*                                                                         *)
(* The notebook's own state is the kernel namespace (ns, defined), the     *)
(* process environment (environ) and what it printed (stdout).  The calls  *)
(* it makes into cudf, dask, dask_cudf, distributed and xgboost are        *)
(* modelled by what those calls do to the values the notebook holds:       *)
(* tables are sequences of rows carrying their index label, distributed    *)
(* tables are sequences of partitions, series carry their index labels so  *)
(* that index alignment is something the model computes.                   *)
(*                                                                         *)
(* Scaling.  size (1000000 in the source) is the bound of the model and     *)
(* npartitions (8 in the source) is scaled down with it.  Column y, a      *)
(* float in the source, is held in halves (the stored integer is 2*y), so  *)
(* that the literal 0.5 of the queries is the integer 1.                   *)
(***************************************************************************)
EXTENDS Integers, Sequences, FiniteSets, TLC

\* line 141: size = 1000000, scaled down.
size == 4

\* line 142: npartitions = 8, scaled down.
npartitions == 2

\* Values of column y in halves: 0.0, 0.5 and 1.0 (below, at and above the
\* threshold 0.5 of the two queries).
YValues == {0, 1, 2}

VARIABLES
    pc,          \* index into Program of the next statement to run
    status,      \* "running" | "failed" (a cell raised) | "done"
    raised,      \* the statement whose call raised, or "none"
    started,     \* the cells begun so far, in order (history)
    inCall,      \* TRUE while the blocking DaskDMatrix constructor is running
    environ,     \* the process environment: variable name -> value
    ns,          \* the kernel namespace: the notebook's variables
    defined,     \* the names of ns that have been assigned
    persisted,   \* the collections whose partitions are futures on the cluster
    resident,    \* the partitions in worker memory: <<collection, index>>
    boosterObj,  \* the Booster object xgb.dask.train returned (shared by
                 \* trained_model["booster"] and booster)
    workerCopy,  \* the Booster as deserialised on the workers by xgb.dask.predict
    stdout       \* the rmse values printed, in order

vars == <<pc, status, raised, started, inCall, environ, ns, defined,
          persisted, resident, boosterObj, workerCopy, stdout>>

-----------------------------------------------------------------------------
(* Sequences and numbers                                                   *)

Range(s) == {s[i] : i \in DOMAIN s}

RECURSIVE Flatten(_)
Flatten(ss) == IF ss = <<>> THEN <<>> ELSE Head(ss) \o Flatten(Tail(ss))

RECURSIVE SumSeq(_)
SumSeq(s) == IF s = <<>> THEN 0 ELSE Head(s) + SumSeq(Tail(s))

SortedSeq(S) ==
    [k \in 1..Cardinality(S) |->
        CHOOSE x \in S : Cardinality({y \in S : y < x}) = k - 1]

RECURSIVE Gcd(_, _)
Gcd(a, b) == IF b = 0 THEN a ELSE Gcd(b, a % b)

Min(a, b) == IF a < b THEN a ELSE b

-----------------------------------------------------------------------------
(* The bootstrap cell's text handling                                      *)

\* What `hostname --all-ip-addresses` can print, as characters: nothing, only
\* white space, or two addresses ("a" and "b" stand for the addresses).
HostnameOutputs ==
    { <<>>, <<" ", "\n">>, <<"a", " ", "b", " ", "\n">> }

IsSpace(c) == c \in {" ", "\n"}

\* str.split() with no separator: the maximal runs of non-space characters.
\* A token is the sequence of its characters.
RECURSIVE SplitFrom(_, _, _)
SplitFrom(s, cur, acc) ==
    IF s = <<>>
    THEN IF cur = <<>> THEN acc ELSE Append(acc, cur)
    ELSE IF IsSpace(Head(s))
         THEN SplitFrom(Tail(s), <<>>, IF cur = <<>> THEN acc ELSE Append(acc, cur))
         ELSE SplitFrom(Tail(s), Append(cur, Head(s)), acc)

Split(s) == SplitFrom(s, <<>>, <<>>)

-----------------------------------------------------------------------------
(* cudf / dask_cudf tables                                                 *)

\* cupy.random.randint(low, high): high is exclusive.
RandInt(low, high) == low .. (high - 1)

\* cudf.DataFrame({'x': xs, 'y': ys}): a default RangeIndex 0..n-1.
DataFrame(xs, ys) ==
    [kind |-> "cudf",
     cols |-> <<"x", "y">>,
     parts |-> << [i \in DOMAIN xs |->
                     [idx |-> i - 1, v |-> [x |-> xs[i], y |-> ys[i]]]] >>]

NoFrame == [kind |-> "unset", cols |-> <<>>, parts |-> <<>>]
NoSeries == [kind |-> "unset", backend |-> "unset", parts |-> <<>>]

Rows(df) == Flatten(df.parts)

\* Variant of FromCudf whose slices run one row into the next partition.
FromCudf_Overlap(df, n) ==
    LET rows == Rows(df)
        nrows == Len(rows)
        chunksize == (nrows + n - 1) \div n
        nparts == IF nrows = 0 THEN 1 ELSE (nrows + chunksize - 1) \div chunksize
    IN [kind |-> "dask", cols |-> df.cols,
        parts |-> [k \in 1..nparts |->
            SubSeq(rows, (k - 1) * chunksize + 1, Min(k * chunksize + 1, nrows))]]

\* dask_cudf.from_cudf -> dask.dataframe.from_pandas(sort=True): chunksize is
\* ceil(nrows / npartitions) and partition k is data.iloc[loc[k]:loc[k+1]] for
\* the locations 0, chunksize, 2*chunksize, ..., nrows.  An empty table is
\* one partition.
FromCudf(df, n) ==
    LET rows == Rows(df)
        nrows == Len(rows)
        chunksize == (nrows + n - 1) \div n
        nparts == IF nrows = 0 THEN 1 ELSE (nrows + chunksize - 1) \div chunksize
    IN [kind |-> "dask", cols |-> df.cols,
        parts |-> [k \in 1..nparts |->
            SubSeq(rows, (k - 1) * chunksize + 1, Min(k * chunksize, nrows))]]

\* Variant of Eval with '>' read as '>='.
Eval_TestInclusive(expr, row) ==
    CASE expr = "y < 0.5" -> row.v.y < 1
      [] expr = "y > 0.5" -> row.v.y >= 1

\* Variant of Eval with both comparisons inclusive.
Eval_Inclusive(expr, row) ==
    CASE expr = "y < 0.5" -> row.v.y <= 1
      [] expr = "y > 0.5" -> row.v.y >= 1

\* The two query strings of the notebook, evaluated on one row.  y is held in
\* halves, so 0.5 is 1.
Eval(expr, row) ==
    CASE expr = "y < 0.5" -> row.v.y < 1
      [] expr = "y > 0.5" -> row.v.y > 1

\* DataFrame.query: map_partitions of the row filter; partitions, their
\* order, the columns and the rows' index labels are kept.
Query(ddf, expr) ==
    LET Keep(r) == Eval(expr, r)
    IN [ddf EXCEPT !.parts = [k \in DOMAIN ddf.parts |-> SelectSeq(ddf.parts[k], Keep)]]

\* Lexicographic order of the column names in use.
ColumnOrder == <<"x", "y">>

\* Variant of ColumnsDifference that removes nothing.
ColumnsDifference_KeepAll(cols, other) ==
    LET In(c) == c \in Range(cols)
    IN SelectSeq(ColumnOrder, In)

\* Index.difference(other): the names not in other, sorted.
ColumnsDifference(cols, other) ==
    LET In(c) == c \in Range(cols) /\ c \notin Range(other)
    IN SelectSeq(ColumnOrder, In)

\* ddf[[c1, ...]]: the listed columns, row by row, partition by partition.
GetColumns(ddf, cs) ==
    [ddf EXCEPT
        !.cols = cs,
        !.parts = [k \in DOMAIN ddf.parts |->
            [i \in DOMAIN ddf.parts[k] |->
                [idx |-> ddf.parts[k][i].idx,
                 v |-> [c \in Range(cs) |-> ddf.parts[k][i].v[c]]]]]]

\* ddf[c]: one column as a series.  An element keeps its index label; src
\* records the source row the value was taken from (history).
GetSeries(ddf, c) ==
    [kind |-> ddf.kind, backend |-> "cudf",
     parts |-> [k \in DOMAIN ddf.parts |->
        [i \in DOMAIN ddf.parts[k] |->
            [idx |-> ddf.parts[k][i].idx,
             val |-> ddf.parts[k][i].v[c],
             src |-> ddf.parts[k][i].idx]]]]

\* ddf.compute(): the partitions concatenated in order into one local table.
Compute(d) == [d EXCEPT !.kind = "cudf", !.parts = << Flatten(d.parts) >>]


-----------------------------------------------------------------------------
(* Series arithmetic                                                       *)

\* Variant of ResetIndex that leaves the index as it is.
ResetIndex_KeepIndex(s) == s

\* Series.reset_index(drop=True).  On a dask series this is map_partitions of
\* the cudf reset_index: every partition gets its own index 0..n-1.
ResetIndex(s) ==
    [s EXCEPT !.parts = [k \in DOMAIN s.parts |->
        [i \in DOMAIN s.parts[k] |-> [s.parts[k][i] EXCEPT !.idx = i - 1]]]]

\* pred.map_partitions(lambda part: cudf.Series(part)): every partition
\* becomes a cudf series, index and values kept.
ToCudfSeries(s) == [s EXCEPT !.backend = "cudf"]

Labels(p) == {p[i].idx : i \in DOMAIN p}

At_(p, l) == CHOOSE e \in Range(p) : e.idx = l

\* a - b for two series held in one place: aligned on the index labels (an
\* outer join); a label that only one side has gives a null.  a and b record
\* which source row each operand came from (history).
AlignedSub(p, q) ==
    LET L == SortedSeq(Labels(p) \cup Labels(q))
    IN [k \in DOMAIN L |->
          IF L[k] \in Labels(p) /\ L[k] \in Labels(q)
          THEN [idx |-> L[k], null |-> FALSE,
                val |-> At_(p, L[k]).val - At_(q, L[k]).val,
                a |-> At_(p, L[k]).src, b |-> At_(q, L[k]).src]
          ELSE [idx |-> L[k], null |-> TRUE, val |-> 0,
                a |-> IF L[k] \in Labels(p) THEN At_(p, L[k]).src ELSE -1,
                b |-> IF L[k] \in Labels(q) THEN At_(q, L[k]).src ELSE -1]]

\* array - series: element by element, by position.
PositionalSub(p, q) ==
    [i \in DOMAIN q |->
        [idx |-> q[i].idx, null |-> FALSE, val |-> p[i].val - q[i].val,
         a |-> p[i].src, b |-> q[i].src]]

\* Whether a - b raises: a pandas partition cannot be subtracted from a cudf
\* one, dask cannot pair the partitions of two series with different
\* partition counts, and an array needs a series of its own length.
SubRaises(a, b) ==
    \/ Len(a.parts) # Len(b.parts)
    \/ a.backend = "pandas" /\ b.backend = "cudf"
    \/ a.backend = "cupy" /\ Len(Flatten(a.parts)) # Len(Flatten(b.parts))

\* pred - true.  Two dask series with the same number of partitions are
\* subtracted partition by partition, each pair aligned on its index.
Sub(a, b) ==
    [kind |-> b.kind, backend |-> b.backend,
     parts |-> [k \in DOMAIN b.parts |->
        IF a.backend = "cupy"
        THEN PositionalSub(a.parts[k], b.parts[k])
        ELSE AlignedSub(a.parts[k], b.parts[k])]]

\* s ** 2: nulls stay null.
Square(s) ==
    [s EXCEPT !.parts = [k \in DOMAIN s.parts |->
        [i \in DOMAIN s.parts[k] |->
            [s.parts[k][i] EXCEPT !.val = s.parts[k][i].val * s.parts[k][i].val]]]]

NaN == [nan |-> TRUE, num |-> 0, den |-> 1]

\* num / den as an exact fraction in lowest terms; 0 / 0 is NaN.
Ratio(num, den) ==
    IF den = 0 THEN NaN
    ELSE [nan |-> FALSE, num |-> num \div Gcd(num, den), den |-> den \div Gcd(num, den)]

PartSum(p) ==
    LET NotNull(e) == ~e.null
        live == SelectSeq(p, NotNull)
    IN SumSeq([i \in DOMAIN live |-> live[i].val])

PartCount(p) ==
    LET NotNull(e) == ~e.null
    IN Len(SelectSeq(p, NotNull))

\* Variant of Mean that averages the partitions' own means.
Mean_OfPartitionMeans(s) ==
    LET live == {k \in DOMAIN s.parts : PartCount(s.parts[k]) > 0}
        means == [k \in DOMAIN s.parts |->
                    IF k \in live
                    THEN PartSum(s.parts[k]) \div PartCount(s.parts[k]) ELSE 0]
    IN Ratio(SumSeq(means), Cardinality(live))

\* Series.mean(): nulls are skipped.  A dask series sums the partitions'
\* sums and counts and divides once.
Mean(s) ==
    Ratio(SumSeq([k \in DOMAIN s.parts |-> PartSum(s.parts[k])]),
          SumSeq([k \in DOMAIN s.parts |-> PartCount(s.parts[k])]))

\* cupy.sqrt: the root is kept symbolic, as the fraction under it.
Sqrt(m) == [radicand |-> m]

-----------------------------------------------------------------------------
(* xgboost                                                                 *)

\* The training parameters of lines 234-241 (2**8 is 256).
Params ==
    [num_rounds |-> 100, max_depth |-> 8, max_leaves |-> 256,
     tree_method |-> "gpu_hist", objective |-> "reg:squarederror",
     grow_policy |-> "lossguide"]

NoBooster == [trees |-> [sum |-> 0, n |-> 0, rounds |-> 0], params |-> <<>>]

\* xgb.dask.DaskDMatrix(client, data, label): the feature partitions paired
\* with the label partitions.
DaskDMatrix(data, label) == [data |-> data, label |-> label]

NoDMatrix == DaskDMatrix(NoFrame, NoFrame)

\* xgb.dask.train: the fitted ensemble is abstracted to what the labels of the
\* training partitions determine (their sum and count) and the round count.
Train(params, dtrain, num_boost_round) ==
    LET labels == Flatten(dtrain.label.parts)
    IN [trees |-> [sum |-> SumSeq([i \in DOMAIN labels |-> labels[i].v.x]),
                   n |-> Len(labels),
                   rounds |-> num_boost_round],
        params |-> params]

\* Booster.set_param(d): the entries of d replace or extend the dictionary.
SetParam(b, d) == [b EXCEPT !.params = d @@ b.params]

\* The ensemble's prediction for one feature row.
PredictRow(trees, v) == IF trees.n = 0 THEN 0 ELSE trees.sum \div trees.n

\* The predictions for the rows of one partition, with a fresh index 0..n-1.
PredictPart(b, p) ==
    [i \in DOMAIN p |->
        [idx |-> i - 1, val |-> PredictRow(b.trees, p[i].v), src |-> p[i].idx]]

\* xgb.dask.predict(client, booster, X): map_partitions of the prediction; in
\* xgboost 1.1.1 the partitions come back as pandas objects (line 349).
DaskPredict(b, X) ==
    [kind |-> "dask", backend |-> "pandas",
     parts |-> [k \in DOMAIN X.parts |-> PredictPart(b, X.parts[k])]]

\* Booster.inplace_predict(data=cudf.DataFrame): one array, row by row.
InplacePredict(b, df) ==
    [kind |-> "cupy", backend |-> "cupy",
     parts |-> << PredictPart(b, Flatten(df.parts)) >>]

-----------------------------------------------------------------------------
(* The notebook: its statements in cell order                              *)

\* Variant of Program with the %env cell run after the cluster cell.
Program_EnvAfterCluster ==
    << "import", "cmd", "Popen", "communicate", "IPADDR", "cluster", "client",
       "env",
       "cdf", "ddf", "query_train", "Y_train", "X_train", "query_test",
       "Y_test", "X_test",
       "wait", "DaskDMatrix",
       "params", "train",
       "booster", "history", "set_param",
       "m1_predict", "m1_true", "m1_map", "m1_reset_pred", "m1_reset_true",
       "m1_sqerr", "m1_rmse", "m1_print",
       "m2_predict", "m2_true", "m2_reset", "m2_sqerr", "m2_rmse", "m2_print" >>

\* The statements of the code cells, top to bottom.  (The cell of line 190
\* only displays xgb.__version__ and is left out.)
Program ==
    << "env",
       "import", "cmd", "Popen", "communicate", "IPADDR", "cluster", "client",
       "cdf", "ddf", "query_train", "Y_train", "X_train", "query_test",
       "Y_test", "X_test",
       "wait", "DaskDMatrix",
       "params", "train",
       "booster", "history", "set_param",
       "m1_predict", "m1_true", "m1_map", "m1_reset_pred", "m1_reset_true",
       "m1_sqerr", "m1_rmse", "m1_print",
       "m2_predict", "m2_true", "m2_reset", "m2_sqerr", "m2_rmse", "m2_print" >>

\* The cell each statement belongs to.
CellOf(s) ==
    CASE s = "env" -> "environment"
      [] s \in {"import", "cmd", "Popen", "communicate", "IPADDR", "cluster",
                "client"} -> "bootstrap"
      [] s \in {"cdf", "ddf", "query_train", "Y_train", "X_train", "query_test",
                "Y_test", "X_test"} -> "dataset"
      [] s \in {"wait", "DaskDMatrix"} -> "matrix"
      [] s \in {"params", "train"} -> "training"
      [] s \in {"booster", "history", "set_param"} -> "set_param"
      [] s \in {"m1_predict", "m1_true", "m1_map", "m1_reset_pred",
                "m1_reset_true", "m1_sqerr", "m1_rmse", "m1_print"} -> "method1"
      [] s \in {"m2_predict", "m2_true", "m2_reset", "m2_sqerr", "m2_rmse",
                "m2_print"} -> "method2"

\* The statements that call nothing that can raise: a literal, a magic, a
\* lookup of a key that is there, a print.
PureStatements ==
    {"env", "cmd", "params", "booster", "history", "m1_print", "m2_print"}

Unset(name) == name \notin DOMAIN environ

Init ==
    /\ pc = 1
    /\ status = "running"
    /\ raised = "none"
    /\ started = <<>>
    /\ inCall = FALSE
    /\ environ \in { <<>>, [NCCL_P2P_DISABLE |-> "0"], [NCCL_P2P_DISABLE |-> "1"] }
    /\ ns = [cmd |-> "", process |-> <<>>, output |-> <<>>, error |-> "None",
             IPADDR |-> <<>>,
             cluster |-> [ip |-> <<>>, NCCL_P2P_DISABLE |-> "unset"],
             client |-> [scheduler |-> <<>>],
             cdf |-> NoFrame, ddf |-> NoFrame,
             X_train |-> NoFrame, Y_train |-> NoFrame,
             X_test |-> NoFrame, Y_test |-> NoFrame,
             done |-> [done |-> {}, not_done |-> {}],
             dtrain |-> NoDMatrix,
             params |-> <<>>,
             trained_model |-> [booster |-> "None", history |-> <<>>],
             booster |-> "None", history |-> <<>>,
             pred |-> NoSeries, true |-> NoSeries, squared_error |-> NoSeries,
             rmse |-> Sqrt(NaN)]
    /\ defined = {}
    /\ persisted = {}
    /\ resident = {}
    /\ boosterObj = NoBooster
    /\ workerCopy = NoBooster
    /\ stdout = <<>>

\* The kernel is about to run statement s.
At(s) == status = "running" /\ pc <= Len(Program) /\ Program[pc] = s

\* The cells begun once the statement at pc has been started.
Entered ==
    IF pc = 1 \/ CellOf(Program[pc - 1]) # CellOf(Program[pc])
    THEN Append(started, CellOf(Program[pc]))
    ELSE started

\* The statement at pc returned: control passes to the next one.
Return ==
    /\ pc' = pc + 1
    /\ status' = IF pc = Len(Program) THEN "done" ELSE "running"
    /\ started' = Entered
    /\ raised' = raised

Assign(name, value) ==
    /\ ns' = [ns EXCEPT ![name] = value]
    /\ defined' = defined \cup {name}

\* Whether the call of the statement at pc can raise in this state.  Any
\* library call can (no memory, no GPU, a dead worker); the [0] of line 107
\* raises IndexError exactly when the output has no token.
CanRaise(s) ==
    CASE s \in PureStatements -> FALSE
      [] s = "IPADDR" -> Split(ns.output) = <<>>
      [] OTHER -> TRUE

\* Variant of Raise in which the kernel goes on and runs the statement again.
Raise_Retry ==
    /\ status = "running" /\ pc <= Len(Program)
    /\ CanRaise(Program[pc])
    /\ raised = "none"
    /\ raised' = Program[pc]
    /\ started' = Entered
    /\ UNCHANGED <<pc, status, inCall, environ, ns, defined, persisted, resident,
                   boosterObj, workerCopy, stdout>>

\* No cell catches anything: an exception ends the cell, and the run, where it
\* is raised.  Nothing is assigned.
Raise ==
    /\ status = "running" /\ pc <= Len(Program)
    /\ CanRaise(Program[pc])
    /\ status' = "failed"
    /\ raised' = Program[pc]
    /\ started' = Entered
    /\ UNCHANGED <<pc, inCall, environ, ns, defined, persisted, resident,
                   boosterObj, workerCopy, stdout>>

cluster_state == <<inCall, persisted, resident>>
heap == <<boosterObj, workerCopy>>

-----------------------------------------------------------------------------
(* Cell 1: the environment                                                 *)

\* line 35: %env NCCL_P2P_DISABLE=1
S_env ==
    /\ At("env") /\ Return
    /\ environ' = [NCCL_P2P_DISABLE |-> "1"] @@ environ
    /\ UNCHANGED <<ns, defined, cluster_state, heap, stdout>>

-----------------------------------------------------------------------------
(* Cell 2: the cluster                                                     *)

\* lines 92-102: the imports.
S_import ==
    /\ At("import") /\ Return
    /\ UNCHANGED <<environ, ns, defined, cluster_state, heap, stdout>>

\* line 104: cmd = "hostname --all-ip-addresses"
S_cmd ==
    /\ At("cmd") /\ Return
    /\ Assign("cmd", "hostname --all-ip-addresses")
    /\ UNCHANGED <<environ, cluster_state, heap, stdout>>

\* line 105: process = subprocess.Popen(cmd.split(), stdout=subprocess.PIPE)
S_Popen ==
    /\ At("Popen") /\ Return
    /\ Assign("process", <<"hostname", "--all-ip-addresses">>)
    /\ UNCHANGED <<environ, cluster_state, heap, stdout>>

\* line 106: output, error = process.communicate().  stderr is not piped, so
\* error is None.
S_communicate ==
    /\ At("communicate") /\ Return
    /\ \E out \in HostnameOutputs :
          /\ ns' = [ns EXCEPT !.output = out, !.error = "None"]
          /\ defined' = defined \cup {"output", "error"}
    /\ UNCHANGED <<environ, cluster_state, heap, stdout>>

\* line 107: IPADDR = str(output.decode()).split()[0]
S_IPADDR ==
    /\ At("IPADDR") /\ Return
    /\ Split(ns.output) # <<>>
    /\ Assign("IPADDR", Split(ns.output)[1])
    /\ UNCHANGED <<environ, cluster_state, heap, stdout>>

\* line 109: cluster = LocalCUDACluster(ip=IPADDR).  The workers are started
\* with the environment as it is now.
S_cluster ==
    /\ At("cluster") /\ Return
    /\ Assign("cluster",
              [ip |-> ns.IPADDR,
               NCCL_P2P_DISABLE |-> IF Unset("NCCL_P2P_DISABLE") THEN "unset"
                                    ELSE environ["NCCL_P2P_DISABLE"]])
    /\ UNCHANGED <<environ, cluster_state, heap, stdout>>

\* line 110: client = Client(cluster)
S_client ==
    /\ At("client") /\ Return
    /\ Assign("client", [scheduler |-> ns.cluster.ip])
    /\ UNCHANGED <<environ, cluster_state, heap, stdout>>

-----------------------------------------------------------------------------
(* Cell 3: the dataset                                                     *)

\* line 144: cdf = cudf.DataFrame({'x': randint(0, npartitions, size=size),
\*                                 'y': normal(size=size)})
S_cdf ==
    /\ At("cdf") /\ Return
    /\ \E xs \in [1..size -> RandInt(0, npartitions)], ys \in [1..size -> YValues] :
          Assign("cdf", DataFrame(xs, ys))
    /\ UNCHANGED <<environ, cluster_state, heap, stdout>>

\* line 145: ddf = dask_cudf.from_cudf(cdf, npartitions=npartitions)
S_ddf ==
    /\ At("ddf") /\ Return
    /\ Assign("ddf", FromCudf(ns.cdf, npartitions))
    /\ UNCHANGED <<environ, cluster_state, heap, stdout>>

\* line 147: X_train = ddf.query('y < 0.5')
S_query_train ==
    /\ At("query_train") /\ Return
    /\ Assign("X_train", Query(ns.ddf, "y < 0.5"))
    /\ UNCHANGED <<environ, cluster_state, heap, stdout>>

\* line 148: Y_train = X_train[['x']]
S_Y_train ==
    /\ At("Y_train") /\ Return
    /\ Assign("Y_train", GetColumns(ns.X_train, <<"x">>))
    /\ UNCHANGED <<environ, cluster_state, heap, stdout>>

\* line 149: X_train = X_train[X_train.columns.difference(['x'])]
S_X_train ==
    /\ At("X_train") /\ Return
    /\ Assign("X_train",
              GetColumns(ns.X_train, ColumnsDifference(ns.X_train.cols, <<"x">>)))
    /\ UNCHANGED <<environ, cluster_state, heap, stdout>>

\* line 151: X_test = ddf.query('y > 0.5')
S_query_test ==
    /\ At("query_test") /\ Return
    /\ Assign("X_test", Query(ns.ddf, "y > 0.5"))
    /\ UNCHANGED <<environ, cluster_state, heap, stdout>>

\* line 152: Y_test = X_test[['x']]
S_Y_test ==
    /\ At("Y_test") /\ Return
    /\ Assign("Y_test", GetColumns(ns.X_test, <<"x">>))
    /\ UNCHANGED <<environ, cluster_state, heap, stdout>>

\* line 153: X_test = X_test[X_test.columns.difference(['x'])]
S_X_test ==
    /\ At("X_test") /\ Return
    /\ Assign("X_test",
              GetColumns(ns.X_test, ColumnsDifference(ns.X_test.cols, <<"x">>)))
    /\ UNCHANGED <<environ, cluster_state, heap, stdout>>

-----------------------------------------------------------------------------
(* Cell 5: the training matrix                                             *)

\* The partitions of a collection, as keys of worker memory.
Keys(name) == {<<name, k>> : k \in DOMAIN ns[name].parts}

\* distributed.futures_of: the futures a list of collections holds.  A
\* collection holds futures only once it has been persisted; a lazy one holds
\* none.
FuturesOf(names) == UNION {Keys(n) : n \in names \cap persisted}

TrainKeys == Keys("X_train") \cup Keys("Y_train")

\* line 200: done = wait([X_train, Y_train]).  wait blocks until the futures
\* of its arguments have finished.  Neither collection has been persisted
\* (the persist calls of lines 244-245 are commented out).
S_wait ==
    /\ At("wait") /\ Return
    /\ FuturesOf({"X_train", "Y_train"}) \subseteq resident
    /\ Assign("done", [done |-> FuturesOf({"X_train", "Y_train"}), not_done |-> {}])
    /\ UNCHANGED <<environ, cluster_state, heap, stdout>>

\* line 203: dtrain = xgb.dask.DaskDMatrix(client, X_train, Y_train).  The
\* constructor persists data and labels ...
S_DaskDMatrix_call ==
    /\ At("DaskDMatrix") /\ ~inCall
    /\ inCall' = TRUE
    /\ persisted' = persisted \cup {"X_train", "Y_train"}
    /\ started' = Entered
    /\ UNCHANGED <<pc, status, raised, environ, ns, defined, resident, heap, stdout>>

\* ... the workers compute the partitions of what has been persisted, in any
\* order ...
Worker_compute ==
    /\ status = "running"
    /\ \E key \in FuturesOf(persisted) \ resident :
          resident' = resident \cup {key}
    /\ UNCHANGED <<pc, status, raised, started, inCall, environ, ns, defined,
                   persisted, heap, stdout>>

\* ... and it returns once every partition is in worker memory.
S_DaskDMatrix_return ==
    /\ At("DaskDMatrix") /\ inCall /\ Return
    /\ TrainKeys \subseteq resident
    /\ inCall' = FALSE
    /\ Assign("dtrain", DaskDMatrix(ns.X_train, ns.Y_train))
    /\ UNCHANGED <<environ, persisted, resident, heap, stdout>>

-----------------------------------------------------------------------------
(* Cell 6: training                                                        *)

\* lines 234-241: params = {...}
S_params ==
    /\ At("params") /\ Return
    /\ Assign("params", Params)
    /\ UNCHANGED <<environ, cluster_state, heap, stdout>>

\* line 247: trained_model = xgb.dask.train(client, params, dtrain,
\*                                          num_boost_round=params['num_rounds'])
\* No evals are passed, so the history is empty.
S_train ==
    /\ At("train") /\ Return
    /\ boosterObj' = Train(ns.params, ns.dtrain, ns.params.num_rounds)
    /\ Assign("trained_model", [booster |-> "Booster", history |-> <<>>])
    /\ UNCHANGED <<environ, cluster_state, workerCopy, stdout>>

-----------------------------------------------------------------------------
(* Cell 7: the booster                                                     *)

\* line 282: booster = trained_model["booster"], a second name for the object.
S_booster ==
    /\ At("booster") /\ Return
    /\ Assign("booster", ns.trained_model.booster)
    /\ UNCHANGED <<environ, cluster_state, heap, stdout>>

\* line 283: history = trained_model['history']
S_history ==
    /\ At("history") /\ Return
    /\ Assign("history", ns.trained_model.history)
    /\ UNCHANGED <<environ, cluster_state, heap, stdout>>

\* line 285: booster.set_param({'predictor': 'gpu_predictor'})
S_set_param ==
    /\ At("set_param") /\ Return
    /\ boosterObj' = SetParam(boosterObj, [predictor |-> "gpu_predictor"])
    /\ UNCHANGED <<environ, ns, defined, cluster_state, workerCopy, stdout>>

-----------------------------------------------------------------------------
(* Cell 8: Method 1, xgb.dask.predict                                      *)

\* Variant of S_m1_predict in which the workers share the client's object.
S_m1_predict_InProcess ==
    /\ At("m1_predict") /\ Return
    /\ boosterObj' = SetParam(boosterObj, [nthread |-> 1])
    /\ workerCopy' = boosterObj'
    /\ Assign("pred", DaskPredict(boosterObj', ns.X_test))
    /\ UNCHANGED <<environ, cluster_state, stdout>>

\* line 333: pred = xgb.dask.predict(client, booster, X_test).  The booster is
\* pickled into the task graph (the warning of lines 307-308); each worker
\* process sets nthread on, and predicts with, its own copy.
S_m1_predict ==
    /\ At("m1_predict") /\ Return
    /\ workerCopy' = SetParam(boosterObj, [nthread |-> 1])
    /\ Assign("pred", DaskPredict(workerCopy', ns.X_test))
    /\ UNCHANGED <<environ, cluster_state, boosterObj, stdout>>

\* line 334: true = Y_test['x']
S_m1_true ==
    /\ At("m1_true") /\ Return
    /\ Assign("true", GetSeries(ns.Y_test, "x"))
    /\ UNCHANGED <<environ, cluster_state, heap, stdout>>

\* line 335: pred = pred.map_partitions(lambda part: cudf.Series(part))
S_m1_map ==
    /\ At("m1_map") /\ Return
    /\ Assign("pred", ToCudfSeries(ns.pred))
    /\ UNCHANGED <<environ, cluster_state, heap, stdout>>

\* line 336: pred = pred.reset_index(drop=True)
S_m1_reset_pred ==
    /\ At("m1_reset_pred") /\ Return
    /\ Assign("pred", ResetIndex(ns.pred))
    /\ UNCHANGED <<environ, cluster_state, heap, stdout>>

\* line 337: true = true.reset_index(drop=True)
S_m1_reset_true ==
    /\ At("m1_reset_true") /\ Return
    /\ Assign("true", ResetIndex(ns.true))
    /\ UNCHANGED <<environ, cluster_state, heap, stdout>>

\* line 340: squared_error = ((pred - true)**2)
S_m1_sqerr ==
    /\ At("m1_sqerr") /\ Return
    /\ ~SubRaises(ns.pred, ns.true)
    /\ Assign("squared_error", Square(Sub(ns.pred, ns.true)))
    /\ UNCHANGED <<environ, cluster_state, heap, stdout>>

\* line 341: rmse = cupy.sqrt(squared_error.mean().compute())
S_m1_rmse ==
    /\ At("m1_rmse") /\ Return
    /\ Assign("rmse", Sqrt(Mean(ns.squared_error)))
    /\ UNCHANGED <<environ, cluster_state, heap, stdout>>

\* line 342: print('rmse value:', rmse)
S_m1_print ==
    /\ At("m1_print") /\ Return
    /\ stdout' = Append(stdout, ns.rmse)
    /\ UNCHANGED <<environ, ns, defined, cluster_state, heap>>

-----------------------------------------------------------------------------
(* Cell 9: Method 2, Booster.inplace_predict                               *)

\* line 385: pred = booster.inplace_predict(data=X_test.compute())
S_m2_predict ==
    /\ At("m2_predict") /\ Return
    /\ Assign("pred", InplacePredict(boosterObj, Compute(ns.X_test)))
    /\ UNCHANGED <<environ, cluster_state, heap, stdout>>

\* line 386: true = Y_test['x']
S_m2_true ==
    /\ At("m2_true") /\ Return
    /\ Assign("true", GetSeries(ns.Y_test, "x"))
    /\ UNCHANGED <<environ, cluster_state, heap, stdout>>

\* line 387: true = true.reset_index(drop=True).compute()
S_m2_reset ==
    /\ At("m2_reset") /\ Return
    /\ Assign("true", Compute(ResetIndex(ns.true)))
    /\ UNCHANGED <<environ, cluster_state, heap, stdout>>

\* line 389: squared_error = ((pred - true)**2)
S_m2_sqerr ==
    /\ At("m2_sqerr") /\ Return
    /\ ~SubRaises(ns.pred, ns.true)
    /\ Assign("squared_error", Square(Sub(ns.pred, ns.true)))
    /\ UNCHANGED <<environ, cluster_state, heap, stdout>>

\* line 390: rmse = cupy.sqrt(squared_error.mean())
S_m2_rmse ==
    /\ At("m2_rmse") /\ Return
    /\ Assign("rmse", Sqrt(Mean(ns.squared_error)))
    /\ UNCHANGED <<environ, cluster_state, heap, stdout>>

\* line 391: print('rmse value:', rmse)
S_m2_print ==
    /\ At("m2_print") /\ Return
    /\ stdout' = Append(stdout, ns.rmse)
    /\ UNCHANGED <<environ, ns, defined, cluster_state, heap>>

-----------------------------------------------------------------------------

Next ==
    \/ S_env
    \/ S_import \/ S_cmd \/ S_Popen \/ S_communicate \/ S_IPADDR
    \/ S_cluster \/ S_client
    \/ S_cdf \/ S_ddf \/ S_query_train \/ S_Y_train \/ S_X_train
    \/ S_query_test \/ S_Y_test \/ S_X_test
    \/ S_wait \/ S_DaskDMatrix_call \/ Worker_compute \/ S_DaskDMatrix_return
    \/ S_params \/ S_train
    \/ S_booster \/ S_history \/ S_set_param
    \/ S_m1_predict \/ S_m1_true \/ S_m1_map \/ S_m1_reset_pred
    \/ S_m1_reset_true \/ S_m1_sqerr \/ S_m1_rmse \/ S_m1_print
    \/ S_m2_predict \/ S_m2_true \/ S_m2_reset \/ S_m2_sqerr \/ S_m2_rmse
    \/ S_m2_print
    \/ Raise

Spec == Init /\ [][Next]_vars

-----------------------------------------------------------------------------
(* What the properties below read off a state                              *)

IndexOf(s) == CHOOSE i \in DOMAIN Program : Program[i] = s

\* Statement s has returned.
AfterStmt(s) == pc > IndexOf(s)

\* Statement s was the last one to return.
Just(s) == pc = IndexOf(s) + 1

\* The index labels (the rows of cdf) a table holds, and those of one shard.
Ids(d) == {r.idx : r \in Range(Rows(d))}
ShardIds(d, k) == {r.idx : r \in Range(d.parts[k])}

SourceRow(i) == CHOOSE r \in Range(Rows(ns.cdf)) : r.idx = i

Below == {r.idx : r \in {q \in Range(Rows(ns.cdf)) : q.v.y < 1}}
Above == {r.idx : r \in {q \in Range(Rows(ns.cdf)) : q.v.y > 1}}
OnThreshold == {r.idx : r \in {q \in Range(Rows(ns.cdf)) : q.v.y = 1}}

-----------------------------------------------------------------------------
\* C1: the training subset ('y < 0.5') and the test subset ('y > 0.5') have no
\* row of the source table in common, for the feature tables X_train/X_test
\* and for the label tables Y_train/Y_test alike.
C1_TrainTestDisjoint ==
    /\ {"X_train", "X_test"} \subseteq defined
          => Ids(ns.X_train) \cap Ids(ns.X_test) = {}
    /\ {"Y_train", "Y_test"} \subseteq defined
          => Ids(ns.Y_train) \cap Ids(ns.Y_test) = {}

\* The split has run on a table with rows on both sides of, and on, 0.5.
C1_Witness ==
    /\ AfterStmt("X_test")
    /\ Ids(ns.X_train) # {} /\ Ids(ns.Y_test) # {} /\ OnThreshold # {}

\* C2: after from_cudf the table is exactly npartitions row-disjoint shards
\* that together are the rows of cdf, once each, with columns x and y; right
\* after each query the result has the same shards and columns, shard k
\* holding exactly the rows of ddf's shard k that satisfy the predicate; and
\* the shards of the subsets stay row-disjoint subsets of ddf's shards.
C2_ShardsReconstruct ==
    /\ "ddf" \in defined =>
          /\ Len(ns.ddf.parts) = npartitions
          /\ Rows(ns.ddf) = Rows(ns.cdf)
          /\ ns.ddf.cols = <<"x", "y">>
          /\ \A j, k \in DOMAIN ns.ddf.parts :
                j # k => ShardIds(ns.ddf, j) \cap ShardIds(ns.ddf, k) = {}
          /\ Cardinality(Ids(ns.ddf)) = size
    /\ Just("query_train") =>
          /\ ns.X_train.cols = ns.ddf.cols
          /\ DOMAIN ns.X_train.parts = DOMAIN ns.ddf.parts
          /\ \A k \in DOMAIN ns.ddf.parts :
                /\ Range(ns.X_train.parts[k])
                      = {r \in Range(ns.ddf.parts[k]) : r.v.y < 1}
                /\ Len(ns.X_train.parts[k]) = Cardinality(ShardIds(ns.ddf, k) \cap Below)
    /\ Just("query_test") =>
          /\ ns.X_test.cols = ns.ddf.cols
          /\ DOMAIN ns.X_test.parts = DOMAIN ns.ddf.parts
          /\ \A k \in DOMAIN ns.ddf.parts :
                /\ Range(ns.X_test.parts[k])
                      = {r \in Range(ns.ddf.parts[k]) : r.v.y > 1}
                /\ Len(ns.X_test.parts[k]) = Cardinality(ShardIds(ns.ddf, k) \cap Above)
    /\ \A name \in {"X_train", "Y_train", "X_test", "Y_test"} \cap defined :
          /\ DOMAIN ns[name].parts = DOMAIN ns.ddf.parts
          /\ \A k \in DOMAIN ns.ddf.parts :
                /\ ShardIds(ns[name], k) \subseteq ShardIds(ns.ddf, k)
                /\ Len(ns[name].parts[k]) = Cardinality(ShardIds(ns[name], k))

\* Both queries have run; the test shards differ in size and one is empty.
C2_Witness ==
    /\ Just("query_test")
    /\ \E j, k \in DOMAIN ns.X_test.parts :
          ns.X_test.parts[j] = <<>> /\ Len(ns.X_test.parts[k]) >= 2
    /\ Ids(ns.X_train) # {}

\* C3: wait([X_train, Y_train]) returns only once every partition of the
\* training features and labels is in worker memory, the DaskDMatrix is built
\* after that wait, and when the constructor returns every training
\* partition is in worker memory.
C3_WaitUntilResident ==
    /\ AfterStmt("wait") => TrainKeys \subseteq resident
    /\ AfterStmt("DaskDMatrix") => "done" \in defined /\ TrainKeys \subseteq resident

\* C4: the cells run in the one fixed order, each begun once and only after
\* the one before it returned; a finished run has run them all; and
\* NCCL_P2P_DISABLE is 1 when the cluster is created and from then on.
CellOrder ==
    << "environment", "bootstrap", "dataset", "matrix", "training", "set_param",
       "method1", "method2" >>

C5_BoosterFrame ==
    [][ ("trained_model" \in defined /\ boosterObj' # boosterObj)
            => Program[pc] = "set_param" ]_vars

\* Both prediction methods have run, the first on the workers' copy.
C5_Witness ==
    /\ status = "done"
    /\ "nthread" \in DOMAIN workerCopy.params
    /\ "predictor" \in DOMAIN boosterObj.params
    /\ Len(stdout) = 2

\* C6: a call that raises is not caught and not retried: the run stops at that
\* statement, nothing is assigned, and no later statement runs.  The [0] of
\* line 107 raises whenever the hostname output has no token.
C6_Uncaught ==
    [][ /\ status = "running"
        /\ raised' # raised =>
              /\ status' = "failed"
              /\ raised' = Program[pc]
              /\ UNCHANGED <<pc, ns, defined, environ, boosterObj, stdout>>
        /\ (At("IPADDR") /\ Split(ns.output) = <<>>) => raised' = "IPADDR"
      ]_vars

\* The run died on the empty hostname output, and one died in training.
C6_Witness ==
    /\ status = "failed"
    /\ \/ raised = "IPADDR" /\ Split(ns.output) = <<>> /\ "IPADDR" \notin defined
       \/ raised = "train" /\ "trained_model" \notin defined

\* C7: each printed rmse is the square root of the mean, over all rows of the
\* test subset, of (prediction - label x) squared: the same value for
\* Method 1 and for Method 2.
ExpectedRmse ==
    LET T == SortedSeq(Above)
        Err(i) == PredictRow(boosterObj.trees, [y |-> SourceRow(i).v.y])
                    - SourceRow(i).v.x
    IN Sqrt(Ratio(SumSeq([k \in DOMAIN T |-> Err(T[k]) * Err(T[k])]), Len(T)))

Method1Series == AfterStmt("m1_reset_true") /\ pc <= IndexOf("m2_predict")
Method1Errors == AfterStmt("m1_sqerr") /\ pc <= IndexOf("m2_sqerr")

C8_IndexAligned ==
    /\ Method1Series =>
          /\ DOMAIN ns.pred.parts = DOMAIN ns.true.parts
          /\ \A k \in DOMAIN ns.pred.parts :
                /\ Len(ns.pred.parts[k]) = Len(ns.true.parts[k])
                /\ \A i \in DOMAIN ns.pred.parts[k] :
                      ns.pred.parts[k][i].idx = ns.true.parts[k][i].idx
    /\ Method1Errors =>
          LET errs == Flatten(ns.squared_error.parts)
          IN /\ \A i \in DOMAIN errs : ~errs[i].null /\ errs[i].a = errs[i].b
             /\ {errs[i].a : i \in DOMAIN errs} = Above
             /\ Len(errs) = Cardinality(Above)

\* Method 1 has subtracted; one shard of the test subset is empty and another
\* holds two rows whose labels in cdf do not start at 0.
C8_Witness ==
    /\ Method1Errors
    /\ \E j, k \in DOMAIN ns.Y_test.parts :
          /\ ns.Y_test.parts[j] = <<>>
          /\ Len(ns.Y_test.parts[k]) >= 2
          /\ ns.Y_test.parts[k][1].idx > 0

\* C9: the split is not exhaustive: a row whose y is not 0.5 is in exactly one
\* of the two subsets, a row whose y is 0.5 is in neither, and the subsets'
\* row counts add up to the table's minus the rows with y = 0.5.
C9_SplitNotExhaustive ==
    /\ {"X_train", "X_test"} \subseteq defined =>
          /\ \A i \in Ids(ns.cdf) \ OnThreshold :
                (i \in Ids(ns.X_train)) # (i \in Ids(ns.X_test))
          /\ \A i \in OnThreshold :
                i \notin Ids(ns.X_train) /\ i \notin Ids(ns.X_test)
          /\ Len(Rows(ns.X_train)) + Len(Rows(ns.X_test))
                = Len(Rows(ns.cdf)) - Cardinality(OnThreshold)
    /\ {"Y_train", "Y_test"} \subseteq defined =>
          /\ Ids(ns.Y_train) = Ids(ns.cdf) \cap Below
          /\ Ids(ns.Y_test) = Ids(ns.cdf) \cap Above

\* The split has run and left two rows, with y = 0.5, in neither subset.
C9_Witness ==
    /\ AfterStmt("Y_test")
    /\ Cardinality(OnThreshold) = 2
    /\ Ids(ns.X_test) # {} /\ Ids(ns.Y_train) # {}

\* C10: after the split cell the feature tables hold column y only, the label
\* tables column x only; features and labels of a subset have the same
\* shards, the same row count in each, their i-th rows come from the same row
\* of cdf; and every label is in 0..npartitions-1.
FeaturesMatchLabels(X, Y) ==
    /\ X.cols = <<"y">> /\ Y.cols = <<"x">>
    /\ DOMAIN X.parts = DOMAIN Y.parts
    /\ \A k \in DOMAIN X.parts :
          /\ Len(X.parts[k]) = Len(Y.parts[k])
          /\ \A i \in DOMAIN X.parts[k] :
                /\ DOMAIN X.parts[k][i].v = {"y"}
                /\ DOMAIN Y.parts[k][i].v = {"x"}
                /\ X.parts[k][i].idx = Y.parts[k][i].idx
                /\ X.parts[k][i].v.y = SourceRow(X.parts[k][i].idx).v.y
                /\ Y.parts[k][i].v.x = SourceRow(Y.parts[k][i].idx).v.x
                /\ Y.parts[k][i].v.x \in 0 .. (npartitions - 1)

C10_FeaturesAndLabels ==
    AfterStmt("X_test") =>
        /\ FeaturesMatchLabels(ns.X_train, ns.Y_train)
        /\ FeaturesMatchLabels(ns.X_test, ns.Y_test)

\* The split cell is done; a training shard holds two rows with different
\* labels, one of them the largest label.
C10_Witness ==
    /\ AfterStmt("X_test")
    /\ \E k \in DOMAIN ns.Y_train.parts :
          /\ Len(ns.Y_train.parts[k]) >= 2
          /\ ns.Y_train.parts[k][1].v.x # ns.Y_train.parts[k][2].v.x
          /\ ns.Y_train.parts[k][2].v.x = npartitions - 1
    /\ Ids(ns.X_test) # {}

=============================================================================
